---- MODULE Spec2Model ----
(***************************************************************************)
(* Model of OsuManiaBot (src/main.py): the column reducer _slice_columns,  *)
(* the input state machine _handle_press, the control loop run and the     *)
(* calibration loop test_region.                                           *)
(*                                                                         *)
(* Column indices are 0-based as in the source.  A screen is a sequence of *)
(* rows, a row a sequence of samples; position x of the source is element  *)
(* x + 1 of the TLA+ sequence.                                             *)
(***************************************************************************)
EXTENDS Integers, Sequences, FiniteSets, TLC

VARIABLES pc, columns, bbox, col_states, inplay, region, screen, cols,
          prev_states, actions, err, streak, window,
          handled, held, redundant, key, returned

vars == <<pc, columns, bbox, col_states, inplay, region, screen, cols,
          prev_states, actions, err, streak, window,
          handled, held, redundant, key, returned>>

(***************************************************************************)
(* Bounds of the model.                                                    *)
(***************************************************************************)
MaxColumns == 4
MaxWidth == 6
MaxHeight == 2
MaxDark == 1
MaxStreak == 2
MaxBandWidth == 60

(***************************************************************************)
(* Program constants.                                                      *)
(***************************************************************************)
\* cv2.threshold(gray, 40, 255, cv2.THRESH_BINARY): the two levels of a sample
On == 255
Off == 0

\* self._codes: column number -> keyboard scan code
codes == (0 :> 2) @@ (1 :> 3) @@ (2 :> 4) @@ (3 :> 5) @@ (4 :> 6) @@
         (5 :> 7) @@ (6 :> 8) @@ (7 :> 9) @@ (8 :> 16) @@ (9 :> 17)

\* the column counts a bot is constructed with: 1..MaxColumns, and the first
\* count that has a column without an entry in codes
ColumnCounts == (1 .. MaxColumns) \cup {Cardinality(DOMAIN codes) + 1}

\* the capture regions a bot of n columns is constructed with, as
\* <<width, height>> of (x1, y1, x2, y2): every width up to MaxWidth with every
\* height up to MaxHeight, and the one-row region that gives each of the n
\* columns one sample
BBoxesFor(n) ==
  ((0 .. MaxWidth) \X (1 .. MaxHeight)) \cup
  (IF n > MaxWidth THEN {<<n, 1>>} ELSE {})

BBoxes == UNION {BBoxesFor(n) : n \in ColumnCounts}

(***************************************************************************)
(* The binary images a capture can produce.  Of a w x h region the model   *)
(* takes every image with at most MaxDark dark samples, all in one row,    *)
(* every image with at most MaxDark lit samples, all in one row, and the   *)
(* images of vertical stripes of every period (lit stripes first, and dark *)
(* stripes first).                                                         *)
(***************************************************************************)
RECURSIVE SubsetsUpTo(_, _)
SubsetsUpTo(S, k) ==
  IF k = 0 THEN {{}}
  ELSE LET smaller == SubsetsUpTo(S, k - 1)
       IN  smaller \cup {s \cup {p} : s \in smaller, p \in S}

Image(w, h, row, D, inside, outside) ==
  [r \in 1 .. h |->
     [x \in 1 .. w |-> IF r = row /\ x \in D THEN inside ELSE outside]]

Striped(w, h, period, first, second) ==
  [r \in 1 .. h |->
     [x \in 1 .. w |-> IF ((x - 1) \div period) % 2 = 0 THEN first ELSE second]]

Images(w, h) ==
  LET few == SubsetsUpTo(1 .. w, MaxDark)
  IN  {Image(w, h, row, D, Off, On) : row \in 1 .. h, D \in few} \cup
      {Image(w, h, row, D, On, Off) : row \in 1 .. h, D \in few} \cup
      {Striped(w, h, p, On, Off) : p \in 1 .. w} \cup
      {Striped(w, h, p, Off, On) : p \in 1 .. w}

ImagesOf == [b \in BBoxes |-> Images(b[1], b[2])]

(***************************************************************************)
(* _slice_columns                                                          *)
(***************************************************************************)
\* Tolerance with the fraction cut off instead of rounded: int(width * 0.2)
ToleranceTruncated(width) == width \div 5

\* Tolerance with the factor 0.5 in place of 0.2: half the width, rounded up
ToleranceHalf(width) == (width + 1) \div 2

\* Python's round(width * 0.2): the nearest integer to width / 5 (width / 5
\* is never halfway between two integers)
Tolerance(width) ==
  IF width % 5 <= 2 THEN width \div 5 ELSE width \div 5 + 1

\* len(screen[0]) // self.columns
BandWidth(frameWidth, n) == frameWidth \div n

\* row[a:b] of Python: negative indices count from the end, both ends are
\* clamped to the row, and an inverted range is empty
PyIndex(k, len) ==
  LET j == IF k < 0 THEN k + len ELSE k
  IN  IF j < 0 THEN 0 ELSE IF j > len THEN len ELSE j

PySlice(row, a, b) ==
  SubSeq(row, PyIndex(a, Len(row)) + 1, PyIndex(b, Len(row)))

\* the first and one-past-last position of the band of column i
BandLo(i, width) == i * width + Tolerance(width)
BandHi(i, width) == (i + 1) * width - Tolerance(width)

\* cols[i] after the rows 1..r have been extended into it
RECURSIVE Extended(_, _, _, _)
Extended(scr, r, i, width) ==
  IF r = 0 THEN <<>>
  ELSE Extended(scr, r - 1, i, width) \o
       PySlice(scr[r], BandLo(i, width), BandHi(i, width))

\* SliceColumns with one list too few: range(self.columns - 1)
SliceColumnsShort(scr, n) ==
  LET width == BandWidth(Len(scr[1]), n)
  IN  [k \in 1 .. n - 1 |-> Extended(scr, Len(scr), k - 1, width)]

\* the list cols returned by _slice_columns; element i + 1 is column i
SliceColumns(scr, n) ==
  LET width == BandWidth(Len(scr[1]), n)
  IN  [k \in 1 .. n |-> Extended(scr, Len(scr), k - 1, width)]

(***************************************************************************)
(* _handle_press                                                           *)
(***************************************************************************)
\* NpAll that is false of the empty list: len(col) > 0 and all(col)
NpAllNonEmpty(col) == Len(col) > 0 /\ \A k \in 1 .. Len(col) : col[k] # 0

\* np.all(col): every element is truthy; true of the empty list
NpAll(col) == \A k \in 1 .. Len(col) : col[k] # 0

Press(code) == [op |-> "Press", code |-> code]
Release(code) == [op |-> "Release", code |-> code]

\* HandleColumn without the assignment that follows PressKey
HandleColumnNoSet(i, col, st) ==
  IF NpAll(col) /\ ~st[i]
  THEN IF i \in DOMAIN codes
       THEN [st |-> st, acts |-> <<Press(codes[i])>>, err |-> "none"]
       ELSE [st |-> st, acts |-> <<>>, err |-> "KeyError"]
  ELSE IF ~NpAll(col) /\ st[i]
  THEN IF i \in DOMAIN codes
       THEN [st |-> [st EXCEPT ![i] = FALSE], acts |-> <<Release(codes[i])>>,
             err |-> "none"]
       ELSE [st |-> st, acts |-> <<>>, err |-> "KeyError"]
  ELSE [st |-> st, acts |-> <<>>, err |-> "none"]

\* HandleColumn whose second branch tests only the state: elif self._col_states[i]
HandleColumnReleaseHeld(i, col, st) ==
  IF NpAll(col) /\ ~st[i]
  THEN IF i \in DOMAIN codes
       THEN [st |-> [st EXCEPT ![i] = TRUE], acts |-> <<Press(codes[i])>>,
             err |-> "none"]
       ELSE [st |-> st, acts |-> <<>>, err |-> "KeyError"]
  ELSE IF st[i]
  THEN IF i \in DOMAIN codes
       THEN [st |-> [st EXCEPT ![i] = FALSE], acts |-> <<Release(codes[i])>>,
             err |-> "none"]
       ELSE [st |-> st, acts |-> <<>>, err |-> "KeyError"]
  ELSE [st |-> st, acts |-> <<>>, err |-> "none"]

\* HandleColumn without the assignment that follows ReleaseKey
HandleColumnNoClear(i, col, st) ==
  IF NpAll(col) /\ ~st[i]
  THEN IF i \in DOMAIN codes
       THEN [st |-> [st EXCEPT ![i] = TRUE], acts |-> <<Press(codes[i])>>,
             err |-> "none"]
       ELSE [st |-> st, acts |-> <<>>, err |-> "KeyError"]
  ELSE IF ~NpAll(col) /\ st[i]
  THEN IF i \in DOMAIN codes
       THEN [st |-> st, acts |-> <<Release(codes[i])>>, err |-> "none"]
       ELSE [st |-> st, acts |-> <<>>, err |-> "KeyError"]
  ELSE [st |-> st, acts |-> <<>>, err |-> "none"]

\* one pass of the loop body for column i on the state st: the new state,
\* the injection call made, and the exception raised by self._codes[i]
HandleColumn(i, col, st) ==
  IF NpAll(col) /\ ~st[i]
  THEN IF i \in DOMAIN codes
       THEN [st |-> [st EXCEPT ![i] = TRUE], acts |-> <<Press(codes[i])>>,
             err |-> "none"]
       ELSE [st |-> st, acts |-> <<>>, err |-> "KeyError"]
  ELSE IF ~NpAll(col) /\ st[i]
  THEN IF i \in DOMAIN codes
       THEN [st |-> [st EXCEPT ![i] = FALSE], acts |-> <<Release(codes[i])>>,
             err |-> "none"]
       ELSE [st |-> st, acts |-> <<>>, err |-> "KeyError"]
  ELSE [st |-> st, acts |-> <<>>, err |-> "none"]

\* Enumerate from the last column down
EnumerateReversed(cs) == [k \in 1 .. Len(cs) |-> Len(cs) - k]

\* enumerate(cols): the column indices in the order the loop visits them
Enumerate(cs) == [k \in 1 .. Len(cs) |-> k - 1]

\* the loop of _handle_press from the k-th visited column on; an exception
\* ends the loop and leaves the columns visited so far handled; n is the
\* number of columns whose pass was completed
RECURSIVE HandleFrom(_, _, _, _, _)
HandleFrom(k, order, cs, st, acts) ==
  IF k > Len(order)
  THEN [st |-> st, acts |-> acts, err |-> "none", n |-> Len(order)]
  ELSE LET i == order[k]
           one == HandleColumn(i, cs[i + 1], st)
       IN  IF one.err # "none"
           THEN [st |-> one.st, acts |-> acts \o one.acts, err |-> one.err,
                 n |-> k - 1]
           ELSE HandleFrom(k + 1, order, cs, one.st, acts \o one.acts)

HandlePress(cs, st) == HandleFrom(1, Enumerate(cs), cs, st, <<>>)

\* the calls key_press.PressKey(code) and key_press.ReleaseKey(code), in the
\* order they were made, applied to the record of the keys whose last call
\* was PressKey; a call is redundant when it presses a key of that set or
\* releases a key outside it
InjectOne(a, h) ==
  IF a.op = "Press"
  THEN [held |-> h.held \cup {a.code},
        redundant |-> h.redundant \/ a.code \in h.held]
  ELSE [held |-> h.held \ {a.code},
        redundant |-> h.redundant \/ a.code \notin h.held]

RECURSIVE Inject(_, _, _)
Inject(acts, k, h) ==
  IF k > Len(acts) THEN h ELSE Inject(acts, k + 1, InjectOne(acts[k], h))

(***************************************************************************)
(* State                                                                   *)
(***************************************************************************)
\* _initialize_states
InitializeStates(n) == [i \in 0 .. n - 1 |-> FALSE]

\* no update has yet met signals equal to the state
NoStreak == [n |-> 0, s |-> <<>>, emitted |-> FALSE]

\* the state after OsuManiaBot(bbox, columns)
Init ==
  /\ pc = "idle"
  /\ columns \in ColumnCounts
  /\ bbox \in BBoxesFor(columns)
  /\ col_states = InitializeStates(columns)
  /\ inplay = FALSE
  /\ region = <<>>
  /\ screen = <<>>
  /\ cols = <<>>
  /\ prev_states = col_states
  /\ actions = <<>>
  /\ err = "none"
  /\ streak = NoStreak
  /\ window = FALSE
  /\ handled = 0
  /\ held = {}
  /\ redundant = FALSE
  /\ key = "none"
  /\ returned = "none"

\* the signals the state machine reads off cols, by column index
Signals(cs) == [i \in 0 .. Len(cs) - 1 |-> NpAll(cs[i + 1])]

\* the run of consecutive updates whose signals equal s, the state the first
\* of them met: how many there were (counted up to MaxStreak), s, and whether
\* any of them emitted an action
NextStreak(cs, st, acts) ==
  LET s == IF streak.n > 0 THEN streak.s ELSE st
  IN  IF Signals(cs) = s
      THEN [n |-> IF streak.n < MaxStreak THEN streak.n + 1 ELSE MaxStreak,
            s |-> s,
            emitted |-> streak.emitted \/ acts # <<>>]
      ELSE NoStreak

(***************************************************************************)
(* run                                                                     *)
(***************************************************************************)
\* run is called: self._inplay = True, the loop is entered
RunStart ==
  /\ pc = "idle"
  /\ pc' = "run_top"
  /\ inplay' = TRUE
  /\ streak' = NoStreak
  /\ key' = "none"
  /\ returned' = "none"
  /\ UNCHANGED <<columns, bbox, col_states, region, screen, cols,
                 prev_states, actions, err, window, handled, held, redundant>>

\* an empty capture: cv2.cvtColor rejects an empty image and run ends with
\* the exception
RunCaptureFails ==
  /\ pc = "run_top"
  /\ inplay
  /\ bbox[1] = 0
  /\ pc' = "error"
  /\ err' = "cv2.error"
  /\ UNCHANGED <<columns, bbox, col_states, inplay, region, screen, cols,
                 prev_states, actions, streak, window, handled, held,
                 redundant, key, returned>>

\* one iteration up to the poll: grab, threshold, _slice_columns,
\* _handle_press
RunFrame ==
  /\ pc = "run_top"
  /\ inplay
  /\ bbox[1] > 0
  /\ \E binary \in ImagesOf[bbox] :
       LET cs == SliceColumns(binary, columns)
           res == HandlePress(cs, col_states)
           os == Inject(res.acts, 1, [held |-> held, redundant |-> redundant])
       IN  /\ screen' = binary
           /\ handled' = res.n
           /\ held' = os.held
           /\ redundant' = os.redundant
           /\ cols' = cs
           /\ prev_states' = col_states
           /\ col_states' = res.st
           /\ actions' = res.acts
           /\ err' = res.err
           /\ streak' = NextStreak(cs, col_states, res.acts)
           /\ pc' = IF res.err = "none" THEN "run_poll" ELSE "error"
  /\ key' = "none"
  /\ UNCHANGED <<columns, bbox, inplay, region, window, returned>>

\* RunPoll that releases every held key and clears the state before it returns
RunPollReleases ==
  /\ pc = "run_poll"
  /\ \E quit \in BOOLEAN :
       IF quit
       THEN /\ pc' = "idle"
            /\ key' = "q"
            /\ returned' = "run"
            /\ streak' = NoStreak
            /\ col_states' = InitializeStates(columns)
            /\ held' = {}
       ELSE /\ pc' = "run_top"
            /\ key' = "other"
            /\ UNCHANGED <<returned, streak, col_states, held>>
  /\ screen' = <<>>
  /\ cols' = <<>>
  /\ actions' = <<>>
  /\ prev_states' = col_states'
  /\ handled' = 0
  /\ UNCHANGED <<columns, bbox, inplay, region, err, window, redundant>>

\* cv2.waitKey(3): q ends the loop, anything else starts the next iteration;
\* the iteration's screen and columns are dropped.  key is the key the poll
\* of the current iteration returned ("none" until it has polled), returned
\* the method that returned last ("none" while a method is running)
RunPoll ==
  /\ pc = "run_poll"
  /\ \E quit \in BOOLEAN :
       IF quit
       THEN /\ pc' = "idle"
            /\ key' = "q"
            /\ returned' = "run"
            /\ streak' = NoStreak
       ELSE /\ pc' = "run_top"
            /\ key' = "other"
            /\ UNCHANGED <<returned, streak>>
  /\ screen' = <<>>
  /\ cols' = <<>>
  /\ actions' = <<>>
  /\ prev_states' = col_states
  /\ handled' = 0
  /\ UNCHANGED <<columns, bbox, col_states, inplay, region, err, window,
                 held, redundant>>

(***************************************************************************)
(* test_region                                                             *)
(***************************************************************************)
\* test_region(bbox) is called; as in the script (bot.test_region(bbox7)) the
\* region given is the one the bot was constructed with
TestRegionStart ==
  /\ pc = "idle"
  /\ region' = bbox
  /\ pc' = "test_top"
  /\ key' = "none"
  /\ returned' = "none"
  /\ UNCHANGED <<columns, bbox, col_states, inplay, screen, cols,
                 prev_states, actions, err, streak, window, handled, held,
                 redundant>>

TestRegionCaptureFails ==
  /\ pc = "test_top"
  /\ region[1] = 0
  /\ pc' = "error"
  /\ err' = "cv2.error"
  /\ UNCHANGED <<columns, bbox, col_states, inplay, region, screen, cols,
                 prev_states, actions, streak, window, handled, held,
                 redundant, key, returned>>

\* TestRegionFrame that also slices the image and handles the key presses
TestRegionFrameHandles ==
  /\ pc = "test_top"
  /\ region[1] > 0
  /\ \E binary \in ImagesOf[region] :
       LET res == HandlePress(SliceColumns(binary, columns), col_states)
           os == Inject(res.acts, 1, [held |-> held, redundant |-> redundant])
       IN  /\ col_states' = res.st
           /\ actions' = res.acts
           /\ held' = os.held
           /\ redundant' = os.redundant
  /\ window' = TRUE
  /\ pc' = "test_poll"
  /\ key' = "none"
  /\ UNCHANGED <<columns, bbox, inplay, region, screen, cols,
                 prev_states, err, streak, handled, returned>>

\* grab, threshold, cv2.imshow: the image goes to the window and nowhere else
TestRegionFrame ==
  /\ pc = "test_top"
  /\ region[1] > 0
  /\ window' = TRUE
  /\ pc' = "test_poll"
  /\ key' = "none"
  /\ UNCHANGED <<columns, bbox, col_states, inplay, region, screen, cols,
                 prev_states, actions, err, streak, handled, held, redundant,
                 returned>>

\* cv2.waitKey(1): q closes the windows and ends the loop
TestRegionPoll ==
  /\ pc = "test_poll"
  /\ \E quit \in BOOLEAN :
       IF quit
       THEN /\ pc' = "idle"
            /\ key' = "q"
            /\ returned' = "test_region"
            /\ window' = FALSE
            /\ region' = <<>>
       ELSE /\ pc' = "test_top"
            /\ key' = "other"
            /\ UNCHANGED <<window, region, returned>>
  /\ UNCHANGED <<columns, bbox, col_states, inplay, screen, cols,
                 prev_states, actions, err, streak, handled, held, redundant>>

Next ==
  \/ RunStart
  \/ RunCaptureFails
  \/ RunFrame
  \/ RunPoll
  \/ TestRegionStart
  \/ TestRegionCaptureFails
  \/ TestRegionFrame
  \/ TestRegionPoll

Spec == Init /\ [][Next]_vars

(***************************************************************************)
(* Properties                                                              *)
(***************************************************************************)
\* a call of _handle_press has just acted: prev_states is the state it met,
\* cols its argument, actions what it emitted, col_states what it left
HandlePressActed == pc = "run_poll" \/ (pc = "error" /\ err = "KeyError")

\* the actions of the last call that carry the key of column i, in order
ActionsFor(i) ==
  LET OfColumn(a) == i \in DOMAIN codes /\ a.code = codes[i]
  IN  SelectSeq(actions, OfColumn)

\* the column a key code is bound to
ColumnOf(code) == CHOOSE i \in DOMAIN codes : codes[i] = code

AllSamples(scr, level) ==
  \A r \in 1 .. Len(scr) : \A x \in 1 .. Len(scr[r]) : scr[r][x] = level

\* C1: in every update call and for every column index i: signal true on a
\* released column emits exactly Press(bindings[i]) and sets state[i];
\* signal false on a held column emits exactly Release(bindings[i]) and
\* clears state[i]; a signal equal to the state emits nothing for column i
\* and leaves state[i] as it was.
C1_TransitionCorrectness ==
  HandlePressActed =>
    \A i \in 0 .. columns - 1 :
      LET signal == NpAll(cols[i + 1])
      IN  /\ (signal /\ ~prev_states[i]) =>
               /\ i \in DOMAIN codes
               /\ ActionsFor(i) = <<Press(codes[i])>>
               /\ col_states[i]
          /\ (~signal /\ prev_states[i]) =>
               /\ i \in DOMAIN codes
               /\ ActionsFor(i) = <<Release(codes[i])>>
               /\ ~col_states[i]
          /\ (signal = prev_states[i]) =>
               /\ ActionsFor(i) = <<>>
               /\ col_states[i] = prev_states[i]

FFFF == [i \in 0 .. 3 |-> FALSE]
TFTF == [i \in 0 .. 3 |-> i \in {0, 2}]
FFTF == [i \in 0 .. 3 |-> i = 2]

\* C2: the actions of one update call are in ascending column order; from
\* state [F,F,F,F] the signals [T,F,T,F] give exactly Press of column 0 then
\* Press of column 2 and state [T,F,T,F]; from that state the signals
\* [F,F,T,F] give exactly Release of column 0 and state [F,F,T,F].
C2_AscendingColumnOrder ==
  HandlePressActed =>
    /\ \A j, k \in 1 .. Len(actions) :
         j < k => ColumnOf(actions[j].code) < ColumnOf(actions[k].code)
    /\ (columns = 4 /\ prev_states = FFFF /\ Signals(cols) = TFTF) =>
         /\ actions = <<Press(codes[0]), Press(codes[2])>>
         /\ col_states = TFTF
    /\ (columns = 4 /\ prev_states = TFTF /\ Signals(cols) = FFTF) =>
         /\ actions = <<Release(codes[0])>>
         /\ col_states = FFTF

\* the first frame of the scenario has been handled
C2_Witness ==
  /\ pc = "run_poll"
  /\ columns = 4
  /\ prev_states = FFFF
  /\ Signals(cols) = TFTF
  /\ Len(actions) = 2

\* C3: in one update call every column receives at most one action, every
\* action belongs to a column, and state[i] changes if and only if an action
\* was emitted for column i: it is true after a Press, false after a Release.
C3_OneActionPerColumn ==
  HandlePressActed =>
    /\ \A k \in 1 .. Len(actions) :
         \E i \in 0 .. columns - 1 : i \in DOMAIN codes /\ actions[k].code = codes[i]
    /\ \A i \in 0 .. columns - 1 :
         /\ Len(ActionsFor(i)) <= 1
         /\ (col_states[i] # prev_states[i]) <=> (ActionsFor(i) # <<>>)
         /\ ActionsFor(i) # <<>> =>
              (col_states[i] <=> ActionsFor(i)[1].op = "Press")

\* one call pressed one column and released another
C3_Witness ==
  /\ pc = "run_poll"
  /\ \E i, j \in (0 .. columns - 1) \cap DOMAIN codes :
       /\ ActionsFor(i) = <<Press(codes[i])>>
       /\ ActionsFor(j) = <<Release(codes[j])>>

\* C4: consecutive update calls whose signals equal the state s the first of
\* them met emit no action at all and leave the state equal to s, however
\* many they are.
C4_SteadyStateIdempotent ==
  streak.n > 0 =>
    /\ ~streak.emitted
    /\ col_states = streak.s
    /\ pc = "run_poll" => actions = <<>>

\* MaxStreak consecutive steady updates on a state with a held and a
\* released column
C4_Witness ==
  /\ pc = "run_poll"
  /\ streak.n = MaxStreak
  /\ \E i, j \in 0 .. columns - 1 : streak.s[i] /\ ~streak.s[j]

\* the integer nearest to width / 5
NearestFifth(width) == CHOOSE t \in 0 .. width : 2 * (5 * t - width) < 5 /\ 2 * (width - 5 * t) < 5

\* C5: with width = frameWidth div columnCount and tolerance =
\* round(width * 0.2), the signal of column i is true if and only if every
\* sample of every row at the positions i*width + tolerance up to, not
\* including, (i+1)*width - tolerance is on; frame width 100 and 4 columns
\* give width 25, tolerance 5 and band 0 = positions 5..19.
C5_SignalIsBandAllOn ==
  /\ BandWidth(100, 4) = 25
  /\ Tolerance(25) = 5
  /\ BandLo(0, 25) = 5
  /\ BandHi(0, 25) - 1 = 19
  /\ HandlePressActed =>
       LET frameWidth == Len(screen[1])
           width == frameWidth \div columns
           tolerance == NearestFifth(width)
       IN  \A i \in 0 .. columns - 1 :
             NpAll(cols[i + 1]) <=>
               \A r \in 1 .. Len(screen) :
                 \A x \in (i * width + tolerance) .. ((i + 1) * width - tolerance - 1) :
                   x < frameWidth /\ screen[r][x + 1] = On

\* a two-row frame with a trimmed margin: one column reads lit although a
\* sample of its segment, in the margin, is dark
C5_Witness ==
  /\ pc = "run_poll"
  /\ Len(screen) = 2
  /\ LET width == Len(screen[1]) \div columns
     IN  /\ NearestFifth(width) >= 1
         /\ \E i \in 0 .. columns - 1 :
              /\ NpAll(cols[i + 1])
              /\ \E r \in 1 .. 2 : \E x \in (i * width) .. ((i + 1) * width - 1) :
                   screen[r][x + 1] = Off

\* C6: for every column count >= 1 and every frame at least as wide as the
\* column count, _slice_columns returns exactly columnCount columns, as many
\* as Column State has entries.
C6_PartitionCoverage ==
  (HandlePressActed /\ columns >= 1 /\ Len(screen[1]) >= columns) =>
    /\ Len(cols) = columns
    /\ DOMAIN Signals(cols) = 0 .. columns - 1
    /\ DOMAIN col_states = DOMAIN Signals(cols)

\* a frame whose width is not a multiple of the column count was sliced
C6_Witness ==
  /\ pc = "run_poll"
  /\ columns > 1
  /\ Len(screen[1]) > columns
  /\ Len(screen[1]) % columns # 0

\* C7: if every sample of the frame is off, every column signal is false:
\* the update emits no Press and leaves no column held.
C7_AllDark ==
  (HandlePressActed /\ AllSamples(screen, Off)) =>
    /\ \A i \in 0 .. columns - 1 : ~NpAll(cols[i + 1])
    /\ \A k \in 1 .. Len(actions) : actions[k].op # "Press"
    /\ \A i \in 0 .. columns - 1 : ~col_states[i]

\* C8: if every sample of the frame is on, and tolerance < width / 2, every
\* column signal is true: the update presses every column not yet held and
\* releases none.
C8_AllLit ==
  (/\ HandlePressActed
   /\ AllSamples(screen, On)
   /\ LET width == Len(screen[1]) \div columns
      IN  2 * NearestFifth(width) < width) =>
    /\ \A i \in 0 .. columns - 1 : NpAll(cols[i + 1])
    /\ \A k \in 1 .. Len(actions) : actions[k].op # "Release"
    /\ \A i \in 0 .. columns - 1 :
         /\ col_states[i]
         /\ ~prev_states[i] => (i \in DOMAIN codes /\ ActionsFor(i) = <<Press(codes[i])>>)

\* C9: a column count beyond the domain of the key binding table is rejected
\* at construction: such a bot never handles a frame, never emits a key
\* action, and no lookup failure ever surfaces during frame processing.
C9_RejectedAtConstruction ==
  /\ err # "KeyError"
  /\ columns > Cardinality(DOMAIN codes) =>
       /\ pc \notin {"run_poll"}
       /\ actions = <<>>

\* C10: a malformed capture frame (zero width, or narrower than the column
\* count) makes the iteration fail: it yields no column signals, emits no
\* Press or Release, and leaves Column State unchanged.
C10_MalformedFrameFails ==
  bbox[1] < columns =>
    /\ pc # "run_poll"
    /\ cols = <<>>
    /\ actions = <<>>
    /\ col_states = InitializeStates(columns)

\* C11: every time run starts iterating, Column State is all-false and no
\* key is held.
C11_RunStartsAllFalse ==
  (pc = "run_top" /\ key = "none") =>
    /\ \A i \in 0 .. columns - 1 : ~col_states[i]
    /\ held = {}

\* C12: every iteration handles all N columns of its frame and then polls
\* the quit key; it is never cut short between columns.
C12_PollAfterAllColumns ==
  HandlePressActed => (handled = columns /\ pc = "run_poll")

\* what every step taken inside test_region satisfies
CalibrationStep ==
  pc \in {"test_top", "test_poll"} =>
    /\ col_states' = col_states
    /\ actions' = actions
    /\ held' = held
    /\ redundant' = redundant
    /\ pc = "test_poll" => ((key' = "q") <=> (pc' = "idle"))
    /\ pc' = "idle" => returned' = "test_region"

\* C13: calibration mode has no automation side effects: no step of
\* test_region emits a Press or Release or changes Column State, and its
\* loop ends exactly when its poll returns the quit key.
C13_CalibrationNoSideEffects == [][CalibrationStep]_vars

\* calibration has iterated while a column was held
C13_Witness ==
  /\ pc = "test_poll"
  /\ window
  /\ \E i \in (0 .. columns - 1) \cap DOMAIN codes :
       col_states[i] /\ codes[i] \in held

\* C14: no injection call is redundant (PressKey of a held key, ReleaseKey
\* of a key not held, so the calls for a key alternate starting with
\* Press), and in every state the key bound to column i is held if and only
\* if state[i] is true.
C14_NoRedundantInjection ==
  /\ ~redundant
  /\ held \subseteq {codes[i] : i \in (0 .. columns - 1) \cap DOMAIN codes}
  /\ \A i \in 0 .. columns - 1 :
       IF i \in DOMAIN codes
       THEN codes[i] \in held <=> col_states[i]
       ELSE ~col_states[i]

\* a call released one key while another stayed held
C14_Witness ==
  /\ pc = "run_poll"
  /\ held # {}
  /\ \E k \in 1 .. Len(actions) :
       actions[k].op = "Release" /\ actions[k].code \notin held

\* C15: whenever tolerance * 2 >= width (band width 0 included) the band of
\* every column is empty and its signal is lit, whatever the samples of the
\* frame are.
C15_EmptyBandVacuouslyLit ==
  HandlePressActed =>
    LET width == Len(screen[1]) \div columns
    IN  2 * NearestFifth(width) >= width =>
          \A i \in 0 .. columns - 1 :
            /\ cols[i + 1] = <<>>
            /\ NpAll(cols[i + 1])
            /\ i < handled => col_states[i]

\* a frame narrower than the column count, with a dark sample, was reduced
C15_Witness ==
  /\ pc = "run_poll"
  /\ Len(screen[1]) > 0
  /\ Len(screen[1]) < columns
  /\ \E r \in 1 .. Len(screen) : \E x \in 1 .. Len(screen[r]) : screen[r][x] = Off

\* the bands of n columns of the given width: non-empty, inside their
\* segments, pairwise disjoint
BandsWellFormed(n, width) ==
  /\ 2 * Tolerance(width) < width
  /\ \A i \in 0 .. n - 1 :
       /\ BandLo(i, width) < BandHi(i, width)
       /\ i * width <= BandLo(i, width)
       /\ BandHi(i, width) <= (i + 1) * width
  /\ \A i, j \in 0 .. n - 1 : i < j => BandHi(i, width) <= BandLo(j, width)

\* C16: for every column count >= 1 and frame width >= column count,
\* 2 * round(0.2 * width) < width: every band has at least one sample, lies
\* inside its own segment and inside the frame, and the bands of distinct
\* columns are disjoint.  Checked for every band width up to MaxBandWidth on
\* the constructed bot, and on every frame that is sliced.
C16_BandsNonEmptyDisjoint ==
  /\ (pc = "idle" /\ ~inplay) =>
       \A width \in 1 .. MaxBandWidth : BandsWellFormed(columns, width)
  /\ (HandlePressActed /\ Len(screen[1]) >= columns) =>
       LET width == BandWidth(Len(screen[1]), columns)
       IN  /\ BandsWellFormed(columns, width)
           /\ \A i \in 0 .. columns - 1 :
                /\ BandHi(i, width) <= Len(screen[1])
                /\ Len(cols[i + 1]) =
                     Len(screen) * (BandHi(i, width) - BandLo(i, width))
                /\ Len(cols[i + 1]) >= 1

\* a two-row frame of several columns was sliced with a trimmed margin
C16_Witness ==
  /\ pc = "run_poll"
  /\ columns >= 2
  /\ Len(screen) = 2
  /\ Tolerance(BandWidth(Len(screen[1]), columns)) >= 1

\* what the step that takes run from its poll to its return satisfies
StopStep ==
  (pc = "run_poll" /\ pc' = "idle") =>
    /\ key' = "q"
    /\ returned' = "run"
    /\ col_states' = col_states
    /\ held' = held
    /\ redundant' = redundant

\* C17: stopping the control loop emits no key action and does not change
\* Column State: what is held when the poll returns the quit key is still
\* held after run has returned.
C17_StopLeavesKeysHeld == [][StopStep]_vars

\* run has returned on the quit key with a column held
C17_Witness ==
  /\ pc = "idle"
  /\ returned = "run"
  /\ key = "q"
  /\ \E i \in (0 .. columns - 1) \cap DOMAIN codes :
       col_states[i] /\ codes[i] \in held

====
